---------------------------- MODULE Spec2Model ----------------------------
(***************************************************************************)
(* Model of src/main.py: the outage-schedule notifier.                     *)
(*                                                                         *)
(* Representation notes.                                                   *)
(*  - Python floats that are multiples of 0.5 are kept as integers counting*)
(*    tenths of an hour (2.5 h = 25), which is exact for every value the   *)
(*    program computes.                                                    *)
(*  - TLA+ strings are ASCII.  The Ukrainian words and the emoji of the    *)
(*    source are written as ASCII stand-ins with the same number of code   *)
(*    points, so len() of every text is preserved:                         *)
(*      "година" -> "hodyna", "години" -> "hodyny", "годин" -> "hodyn",    *)
(*      battery emoji -> "+", low-battery emoji -> "-", calendar -> "#".   *)
(*  - Python sequences are 0-based, TLA+ sequences 1-based: slot i of the  *)
(*    source is slots[i + 1] here.                                         *)
(***************************************************************************)
EXTENDS Integers, Sequences, FiniteSets, TLC

VARIABLES
    \* ---- pure-function harness (format_hours, build_schedule, rendering)
    arg,            \* the argument of the call
    ret,            \* what the call returned
    fpc,            \* position of the harness
    \* ---- one process running main() again and again
    file,           \* contents of CACHE_FILE, or NoFile
    pc,             \* position inside main()
    run,            \* number of runs started
    creds,          \* TELEGRAM_BOT_TOKEN and TELEGRAM_CHANNEL_ID are set
    data,           \* main: data
    content_hash,   \* main: content_hash
    cached_hash,    \* main: cached_hash
    message,        \* main: message
    parts,          \* send_telegram_message: parts
    idx,            \* send_telegram_message: index of the next part (1-based)
    response_bound, \* send_telegram_message: local `response` is assigned
    send_result,    \* what send_telegram_message returned
    outcome,        \* how the run ended
    attempts,       \* history: the posts of this run, in order
    calls,          \* history: calls of send_telegram_message in this run
    saved,          \* history: save_hash was called in this run
    file_at_start,  \* history: CACHE_FILE when the run started
    prev,           \* history: fingerprint and outcome of the previous run
    okLog           \* history: <<run, fingerprint, part>> of every successful post

pureVars == <<arg, ret, fpc>>
mainVars == <<file, pc, run, creds, data, content_hash, cached_hash, message,
              parts, idx, response_bound, send_result, outcome, attempts,
              calls, saved, file_at_start, prev, okLog>>
vars == <<arg, ret, fpc, file, pc, run, creds, data, content_hash, cached_hash,
          message, parts, idx, response_bound, send_result, outcome, attempts,
          calls, saved, file_at_start, prev, okLog>>

None == "None"
NoFile == "NoFile"

(***************************************************************************)
(* format_hours                                                            *)
(***************************************************************************)
Tenths == 10

\* f"{hours}" for a float with a fractional part: the shortest repr, "2.5"
FloatText(hours) == ToString(hours \div Tenths) \o "." \o ToString(hours % Tenths)

\* mutant: the test n % 100 /= 11 is missing
format_hours_SingularFor11(hours) ==
    IF hours % Tenths /= 0
    THEN FloatText(hours) \o " hodyny"
    ELSE LET n == hours \div Tenths IN
         IF n % 10 = 1
         THEN ToString(n) \o " hodyna"
         ELSE IF n % 10 \in {2, 3, 4} /\ n % 100 \notin {12, 13, 14}
              THEN ToString(n) \o " hodyny"
              ELSE ToString(n) \o " hodyn"

format_hours(hours) ==
    IF hours % Tenths /= 0
    THEN FloatText(hours) \o " hodyny"
    ELSE LET n == hours \div Tenths IN
         IF n % 10 = 1 /\ n % 100 /= 11
         THEN ToString(n) \o " hodyna"
         ELSE IF n % 10 \in {2, 3, 4} /\ n % 100 \notin {12, 13, 14}
              THEN ToString(n) \o " hodyny"
              ELSE ToString(n) \o " hodyn"

(***************************************************************************)
(* format_slot_time                                                        *)
(***************************************************************************)
Pad2(n) == IF n < 10 THEN "0" \o ToString(n) ELSE ToString(n)

format_slot_time(slot) ==
    LET total_minutes == slot * 30
        hours == total_minutes \div 60
        minutes == total_minutes % 60
    IN IF hours = 24 THEN "24:00" ELSE Pad2(hours) \o ":" \o Pad2(minutes)

(***************************************************************************)
(* build_schedule                                                          *)
(***************************************************************************)
HalfHour == 5

\* mutant: the hour labels are taken to start at "0"
StatusOf_ZeroBased(day_data, hour) ==
    IF ToString(hour - 1) \in DOMAIN day_data
    THEN day_data[ToString(hour - 1)] ELSE "yes"

\* hour_key = str(hour); day_data.get(hour_key, "yes")
StatusOf(day_data, hour) ==
    IF ToString(hour) \in DOMAIN day_data THEN day_data[ToString(hour)] ELSE "yes"

\* mutant: "first" and "second" exchanged
HalvesOf_FirstSecondSwapped(status) ==
    CASE status = "yes" -> <<TRUE, TRUE>>
      [] status = "no" -> <<FALSE, FALSE>>
      [] status = "first" -> <<TRUE, FALSE>>
      [] status = "second" -> <<FALSE, TRUE>>
      [] status \in {"maybe", "mfirst", "msecond"} -> <<TRUE, TRUE>>
      [] OTHER -> <<TRUE, TRUE>>

\* <<first_half, second_half>> of one hour
HalvesOf(status) ==
    CASE status = "yes" -> <<TRUE, TRUE>>
      [] status = "no" -> <<FALSE, FALSE>>
      [] status = "first" -> <<FALSE, TRUE>>
      [] status = "second" -> <<TRUE, FALSE>>
      [] status \in {"maybe", "mfirst", "msecond"} -> <<TRUE, TRUE>>
      [] OTHER -> <<TRUE, TRUE>>

\* the loop `for hour in range(1, 25)`: two appends per hour
RECURSIVE BuildSlots(_, _, _)
BuildSlots(day_data, hour, slots) ==
    IF hour >= 25 THEN slots
    ELSE LET h == HalvesOf(StatusOf(day_data, hour))
         IN BuildSlots(day_data, hour + 1, Append(Append(slots, h[1]), h[2]))

Period(start_slot, end_slot, status) ==
    [start |-> format_slot_time(start_slot),
     end |-> format_slot_time(end_slot),
     is_on |-> status,
     hours |-> (end_slot - start_slot) * HalfHour]

\* the loop `for i in range(1, len(slots))` and the final append
RECURSIVE MergeLoop(_, _, _, _, _)
MergeLoop(slots, i, start_slot, current_status, periods) ==
    IF i >= Len(slots)
    THEN Append(periods, Period(start_slot, Len(slots), current_status))
    ELSE IF slots[i + 1] /= current_status
         THEN MergeLoop(slots, i + 1, i, slots[i + 1],
                        Append(periods, Period(start_slot, i, current_status)))
         ELSE MergeLoop(slots, i + 1, start_slot, current_status, periods)

\* mutant: the period still open when the loop ends is never appended
MergeSlots_NoLastPeriod(slots) ==
    IF Len(slots) = 0 THEN <<>>
    ELSE LET all == MergeLoop(slots, 1, 0, slots[1], <<>>)
         IN SubSeq(all, 1, Len(all) - 1)

MergeSlots(slots) ==
    IF Len(slots) = 0 THEN <<>>
    ELSE MergeLoop(slots, 1, 0, slots[1], <<>>)

build_schedule(day_data) == MergeSlots(BuildSlots(day_data, 1, <<>>))

(***************************************************************************)
(* format_schedule_message                                                 *)
(***************************************************************************)
DAYS_UA(weekday) ==
    CASE weekday = 0 -> "Ponedilok"
      [] weekday = 1 -> "Vivtorok"
      [] weekday = 2 -> "Sereda"
      [] weekday = 3 -> "Cetver"
      [] weekday = 4 -> "P'atnyca"
      [] weekday = 5 -> "Subota"
      [] weekday = 6 -> "Nedila"

\* "\n".join(lines)
RECURSIVE JoinWith(_, _)
JoinWith(sep, lines) ==
    IF Len(lines) = 0 THEN ""
    ELSE IF Len(lines) = 1 THEN lines[1]
    ELSE lines[1] \o sep \o JoinWith(sep, Tail(lines))

PeriodLine(period) ==
    (IF period.is_on THEN "+" ELSE "-") \o period.start \o " - " \o period.end
        \o " (" \o format_hours(period.hours) \o ")"

RECURSIVE SumHours(_, _)
SumHours(schedule, on) ==
    IF Len(schedule) = 0 THEN 0
    ELSE (IF schedule[1].is_on = on THEN schedule[1].hours ELSE 0)
             + SumHours(Tail(schedule), on)

\* date is [weekday, day, month]; group_num is the group with "GPV" removed
format_schedule_message(schedule, date, group_num, is_today) ==
    LET day_name == DAYS_UA(date.weekday)
        date_str == Pad2(date.day) \o "." \o Pad2(date.month)
        day_type == IF is_today THEN "siohodni" ELSE "zavtra"
        header == "# Grafik vidkluchen na " \o day_type \o ", " \o date_str
                      \o " (" \o day_name \o "), grupa " \o group_num \o ":"
        total_on == SumHours(schedule, TRUE)
        total_off == SumHours(schedule, FALSE)
    IN JoinWith("\n",
           <<header>> \o [k \in 1..Len(schedule) |-> PeriodLine(schedule[k])]
               \o <<"", "Svitlo e " \o format_hours(total_on),
                    "Svitla nema " \o format_hours(total_off)>>)

(***************************************************************************)
(* Feed documents.  A JSON object is a function from its keys; {} is the   *)
(* function with no keys.                                                  *)
(***************************************************************************)
EmptyDict == <<>>

\* d.get(key, default)
Get(d, key, default) == IF key \in DOMAIN d THEN d[key] ELSE default

\* `not d` for a dict
IsEmptyDict(d) == DOMAIN d = {}

Digits == [c \in {"0", "1", "2", "3", "4", "5", "6", "7", "8", "9"} |->
              CHOOSE n \in 0..9 : ToString(n) = c]
ValueError == 0 - 1

\* int(x) for a key of fact.data: the decimal value, or ValueError
RECURSIVE ParseInt(_, _, _)
ParseInt(x, i, acc) ==
    IF i > Len(x) THEN (IF Len(x) = 0 THEN ValueError ELSE acc)
    ELSE LET c == SubSeq(x, i, i)
         IN IF c \in DOMAIN Digits THEN ParseInt(x, i + 1, acc * 10 + Digits[c])
            ELSE ValueError

int(x) == ParseInt(x, 1, 0)

\* datetime.fromtimestamp(ts), read in UTC, as [weekday, day, month]
\* (weekday() is 0 for Monday; 1970-01-01 was a Thursday)
fromtimestamp(ts) ==
    LET days == ts \div 86400
        z == days + 719468
        era == z \div 146097
        doe == z - era * 146097
        yoe == (doe - doe \div 1460 + doe \div 36524 - doe \div 146096) \div 365
        doy == doe - (365 * yoe + yoe \div 4 - yoe \div 100)
        mp == (5 * doy + 2) \div 153
    IN [weekday |-> (days + 3) % 7,
        day |-> doy - (153 * mp + 2) \div 5 + 1,
        month |-> IF mp < 10 THEN mp + 3 ELSE mp - 9]

(***************************************************************************)
(* format_full_message                                                     *)
(***************************************************************************)
groups == <<"GPV12.1", "GPV18.1">>

\* group.replace("GPV", "")
GroupNum(group) ==
    IF Len(group) >= 3 /\ SubSeq(group, 1, 3) = "GPV"
    THEN SubSeq(group, 4, Len(group)) ELSE group

\* sorted(keys, key=lambda x: int(x))
RECURSIVE SortedDays(_)
SortedDays(keys) ==
    IF keys = {} THEN <<>>
    ELSE LET first == CHOOSE k \in keys : \A o \in keys : int(k) <= int(o)
         IN <<first>> \o SortedDays(keys \ {first})

\* sorted() raises when int() raises on a key
FormatRaises(doc) ==
    LET fact_data == Get(Get(doc, "fact", EmptyDict), "data", EmptyDict)
    IN \E k \in DOMAIN fact_data : int(k) = ValueError

\* the messages of one group: one per day of sorted_days[:2] that has data
GroupMessages(fact_data, days, group) ==
    LET has(k) == /\ k <= Len(days)
                  /\ group \in DOMAIN fact_data[days[k]]
                  /\ ~IsEmptyDict(fact_data[days[k]][group])
        msg(k) == format_schedule_message(
                      build_schedule(fact_data[days[k]][group]),
                      fromtimestamp(int(days[k])), GroupNum(group), k = 1)
    IN (IF has(1) THEN <<msg(1)>> ELSE <<>>) \o (IF has(2) THEN <<msg(2)>> ELSE <<>>)

format_full_message(doc) ==
    LET fact_data == Get(Get(doc, "fact", EmptyDict), "data", EmptyDict)
    IN IF IsEmptyDict(fact_data) THEN None
       ELSE LET sorted_days == SortedDays(DOMAIN fact_data)
                section(g) == GroupMessages(fact_data, sorted_days, groups[g])
                all_messages ==
                    (IF section(1) /= <<>> THEN <<JoinWith("\n---\n", section(1))>>
                     ELSE <<>>)
                    \o (IF section(2) /= <<>> THEN <<JoinWith("\n---\n", section(2))>>
                        ELSE <<>>)
            IN JoinWith("\n===\n", all_messages)

(***************************************************************************)
(* get_cached_hash, save_hash                                              *)
(***************************************************************************)
Whitespace == {" ", "\n", "\t", "\r"}

\* str.strip()
RECURSIVE strip(_)
strip(text) ==
    IF Len(text) = 0 THEN text
    ELSE IF SubSeq(text, 1, 1) \in Whitespace THEN strip(SubSeq(text, 2, Len(text)))
    ELSE IF SubSeq(text, Len(text), Len(text)) \in Whitespace
         THEN strip(SubSeq(text, 1, Len(text) - 1))
    ELSE text

get_cached_hash(f) == IF f = NoFile THEN None ELSE strip(f)

\* what CACHE_FILE holds after save_hash(hash_value)
save_hash(hash_value) == hash_value

(***************************************************************************)
(* send_telegram_message: the split into parts                             *)
(***************************************************************************)
max_length == 4000

\* text.split(sep): cut at each occurrence of sep, left to right
RECURSIVE SplitAt(_, _, _, _)
SplitAt(text, sep, from, hits) ==
    LET next == {h \in hits : h >= from}
    IN IF next = {} THEN <<SubSeq(text, from, Len(text))>>
       ELSE LET h == CHOOSE x \in next : \A y \in next : x <= y
            IN <<SubSeq(text, from, h - 1)>> \o SplitAt(text, sep, h + Len(sep), hits)

Split(text, sep) ==
    SplitAt(text, sep, 1,
            {h \in 1..(Len(text) - Len(sep) + 1) : SubSeq(text, h, h + Len(sep) - 1) = sep})

\* mutant: the message is never split
Parts_NeverSplit(text) == <<text>>

Parts(text) ==
    IF Len(text) <= max_length THEN <<text>> ELSE Split(text, "\n===\n")

(***************************************************************************)
(* main: its three decisions                                               *)
(***************************************************************************)
\* data.get("meta", {}).get("contentHash", "")
FingerprintOf(doc) == Get(Get(doc, "meta", EmptyDict), "contentHash", "")

\* mutant: every retrieved feed counts as new
HashChanged_Always(hash, cached) == TRUE

\* `content_hash == cached_hash` is false
HashChanged(hash, cached) == hash /= cached

\* `not message`
NotMessage(text) == text = None \/ text = ""

\* mutant: the marker is written whatever the delivery returned
DeliverySucceeded_Always(result) == TRUE

\* `if send_telegram_message(message):`
DeliverySucceeded(result) == result = "True"

(***************************************************************************)
(* Harness for the pure functions: the argument is drawn in Init, an action*)
(* applies the function.                                                   *)
(***************************************************************************)
MaxHalfHours == 240
MaxWindow == 2

\* hours values: the multiples of 0.5 from 0 to MaxHalfHours / 2
HoursInputs == {k * HalfHour : k \in 0..MaxHalfHours}

\* what a feed may say about one hour: one of the seven known codes, a
\* string that is none of them, or nothing (the key is absent)
Statuses == {"yes", "no", "first", "second", "maybe", "mfirst", "msecond", "unknown"}
Absent == "absent"

\* a day of the feed: every hour "1".."24" carries `base` (or no key at all),
\* except a window of consecutive keys starting at "0".."25" (so it may hold
\* the out-of-range keys "0", "25", "26", ...), which carries `window`
KeyHours == 0..40
HourOfKey == [k \in {ToString(h) : h \in KeyHours} |->
                 CHOOSE h \in KeyHours : ToString(h) = k]

DayData(base, first, window) ==
    LET inWin(h) == h >= first /\ h < first + Len(window)
        val(h) == IF inWin(h) THEN window[h - first + 1]
                  ELSE IF h \in 1..24 THEN base ELSE Absent
        keys == {h \in KeyHours : val(h) /= Absent}
    IN [k \in {ToString(h) : h \in keys} |-> val(HourOfKey[k])]

Bases == {Absent, "no", "first"}

DayDataInputs ==
    {DayData(b, f, w) : b \in Bases, f \in 0..25,
                        w \in [1..MaxWindow -> Statuses \cup {Absent}]}

\* the days the harness renders: window days on an otherwise silent feed
RenderInputs ==
    {DayData(Absent, f, w) : f \in 0..25, w \in [1..MaxWindow -> Statuses \cup {Absent}]}

\* the dates the harness renders for: Monday 01.01 and Sunday 30.11
HarnessDates == {[weekday |-> 0, day |-> 1, month |-> 1],
                 [weekday |-> 6, day |-> 30, month |-> 11]}

MainIdle ==
    /\ file = NoFile /\ pc = "off" /\ run = 0 /\ creds = FALSE
    /\ data = None /\ content_hash = None /\ cached_hash = None
    /\ message = None /\ parts = <<>> /\ idx = 0 /\ response_bound = FALSE
    /\ send_result = None /\ outcome = None /\ attempts = <<>> /\ calls = 0
    /\ saved = FALSE /\ file_at_start = NoFile /\ prev = None /\ okLog = {}

InitHours ==
    /\ arg \in HoursInputs /\ ret = None /\ fpc = "hours_call"
    /\ MainIdle

CallFormatHours ==
    /\ fpc = "hours_call"
    /\ ret' = format_hours(arg)
    /\ fpc' = "hours_done"
    /\ UNCHANGED <<arg, mainVars>>

NextHours == CallFormatHours

SpecHours == InitHours /\ [][NextHours]_vars

InitSchedule ==
    /\ arg \in DayDataInputs /\ ret = None /\ fpc = "sched_call"
    /\ MainIdle

CallBuildSchedule ==
    /\ fpc = "sched_call"
    /\ ret' = [slots |-> BuildSlots(arg, 1, <<>>), schedule |-> build_schedule(arg)]
    /\ fpc' = "sched_built"
    /\ UNCHANGED <<arg, mainVars>>

NextSchedule == CallBuildSchedule

SpecSchedule == InitSchedule /\ [][NextSchedule]_vars

InitRender ==
    /\ arg \in RenderInputs /\ ret = None /\ fpc = "sched_call"
    /\ MainIdle

CallFormatSchedule ==
    /\ fpc = "sched_built"
    /\ \E date \in HarnessDates, is_today \in BOOLEAN :
         ret' = [slots |-> ret.slots, schedule |-> ret.schedule,
                 date |-> date, is_today |-> is_today,
                 text |-> format_schedule_message(ret.schedule, date, "12.1", is_today)]
    /\ fpc' = "sched_formatted"
    /\ UNCHANGED <<arg, mainVars>>

NextRender == CallBuildSchedule \/ CallFormatSchedule

SpecRender == InitRender /\ [][NextRender]_vars

(***************************************************************************)
(* The feeds the retrieval may return.  Each revision has its fingerprint. *)
(***************************************************************************)
MaxRuns == 3

T1 == "1704067200"     \* Monday 01.01.2024
T2 == "1704153600"     \* Tuesday 02.01.2024
T3 == "1704240000"     \* Wednesday 03.01.2024

DaySmall == DayData(Absent, 1, <<"no", "yes">>)
DayEvening == DayData(Absent, 20, <<"second", "first">>)
DayDense == DayData("first", 1, <<>>)

Doc(hash, fact_data) ==
    [meta |-> [contentHash |-> hash], fact |-> [data |-> fact_data]]

\* one group, one day: a short report
FeedSmall == Doc("r1", [k \in {T1} |-> [g \in {"GPV12.1"} |-> DaySmall]])

\* both groups, three days, every half hour alternating: the longest report
FeedDense ==
    Doc("r2", [k \in {T1, T2, T3} |-> [g \in {"GPV12.1", "GPV18.1"} |-> DayDense]])

\* a fingerprint that ends in a blank; both groups and a group that is not
\* configured today, an empty mapping for one group tomorrow
FeedBlank ==
    Doc("r3 ", [k \in {T1, T2} |->
                   IF k = T1
                   THEN [g \in {"GPV12.1", "GPV18.1", "GPV1.1"} |->
                            IF g = "GPV12.1" THEN DayEvening ELSE DaySmall]
                   ELSE [g \in {"GPV12.1", "GPV18.1"} |->
                            IF g = "GPV12.1" THEN DaySmall ELSE EmptyDict]])

\* fact.data is empty
FeedEmpty == Doc("r4", EmptyDict)

\* fact.data holds none of the configured groups
FeedOtherGroup == Doc("r5", [k \in {T1} |-> [g \in {"GPV1.1"} |-> DaySmall]])

\* a day key that is not a decimal number
FeedBadKey == Doc("r6", [k \in {T1, "today"} |-> [g \in {"GPV12.1"} |-> DaySmall]])

\* no meta at all: the fingerprint defaults to ""
FeedNoMeta == [fact |-> [data |-> [k \in {T2} |-> [g \in {"GPV18.1"} |-> DayEvening]]]]

Feeds == {FeedSmall, FeedDense, FeedBlank, FeedEmpty, FeedOtherGroup, FeedBadKey,
          FeedNoMeta}

(***************************************************************************)
(* main(), run after run                                                   *)
(***************************************************************************)
NoRun == [hash |-> None, outcome |-> None]

Init ==
    /\ arg = None /\ ret = None /\ fpc = "off"
    /\ file = NoFile /\ pc = "idle" /\ run = 0 /\ creds = FALSE
    /\ data = EmptyDict /\ content_hash = None /\ cached_hash = None
    /\ message = None /\ parts = <<>> /\ idx = 0 /\ response_bound = FALSE
    /\ send_result = None /\ outcome = None /\ attempts = <<>> /\ calls = 0
    /\ saved = FALSE /\ file_at_start = NoFile /\ prev = NoRun /\ okLog = {}

\* the scheduler starts the program; the environment may or may not hold
\* the Telegram credentials
StartRun ==
    /\ pc \in {"idle", "done"}
    /\ run < MaxRuns
    /\ run' = run + 1
    /\ \E c \in BOOLEAN : creds' = c
    /\ prev' = IF pc = "idle" THEN NoRun ELSE [hash |-> content_hash, outcome |-> outcome]
    /\ file_at_start' = file
    /\ data' = EmptyDict /\ content_hash' = None /\ cached_hash' = None
    /\ message' = None /\ parts' = <<>> /\ idx' = 0 /\ response_bound' = FALSE
    /\ send_result' = None /\ outcome' = "running" /\ attempts' = <<>>
    /\ calls' = 0 /\ saved' = FALSE
    /\ pc' = "fetch"
    /\ UNCHANGED <<file, okLog, pureVars>>

\* fetch_data() returns None: "Failed to fetch data"
FetchFail ==
    /\ pc = "fetch"
    /\ outcome' = "fetch_failed"
    /\ pc' = "done"
    /\ UNCHANGED <<file, run, creds, data, content_hash, cached_hash, message, parts,
                   idx, response_bound, send_result, attempts, calls, saved,
                   file_at_start, prev, okLog, pureVars>>

\* fetch_data() returns a document
FetchOk ==
    /\ pc = "fetch"
    /\ \E doc \in Feeds : data' = doc
    /\ pc' = "check"
    /\ UNCHANGED <<file, run, creds, content_hash, cached_hash, message, parts, idx,
                   response_bound, send_result, outcome, attempts, calls, saved,
                   file_at_start, prev, okLog, pureVars>>

\* the fingerprint is read from the document, the marker from CACHE_FILE
CheckRevision ==
    /\ pc = "check"
    /\ LET hash == FingerprintOf(data)
           cached == get_cached_hash(file)
       IN /\ content_hash' = hash
          /\ cached_hash' = cached
          /\ IF HashChanged(hash, cached)
             THEN pc' = "format" /\ UNCHANGED outcome
             ELSE pc' = "done" /\ outcome' = "no_updates"
    /\ UNCHANGED <<file, run, creds, data, message, parts, idx, response_bound,
                   send_result, attempts, calls, saved, file_at_start, prev, okLog,
                   pureVars>>

\* format_full_message, then the call of send_telegram_message up to its
\* first post
FormatAndCall ==
    /\ pc = "format"
    /\ IF FormatRaises(data)
       THEN /\ outcome' = "raised" /\ pc' = "done"
            /\ UNCHANGED <<message, parts, idx, send_result, calls>>
       ELSE LET text == format_full_message(data)
            IN /\ message' = text
               /\ IF NotMessage(text)
                  THEN /\ outcome' = "format_failed" /\ pc' = "done"
                       /\ UNCHANGED <<parts, idx, send_result, calls>>
                  ELSE /\ calls' = calls + 1
                       /\ UNCHANGED outcome
                       /\ IF ~creds
                          THEN /\ send_result' = "False" /\ pc' = "commit"
                               /\ UNCHANGED <<parts, idx>>
                          ELSE /\ parts' = Parts(text) /\ idx' = 1 /\ pc' = "post"
                               /\ UNCHANGED send_result
    /\ UNCHANGED <<file, run, creds, data, content_hash, cached_hash, response_bound,
                   attempts, saved, file_at_start, prev, okLog, pureVars>>

Attempt(result) == [part |-> idx, len |-> Len(parts[idx]), result |-> result]

\* requests.post returns and raise_for_status passes
PostOk ==
    /\ pc = "post"
    /\ attempts' = Append(attempts, Attempt("ok"))
    /\ okLog' = okLog \cup {<<run, content_hash, idx>>}
    /\ response_bound' = TRUE
    /\ IF idx = Len(parts)
       THEN send_result' = "True" /\ pc' = "commit" /\ UNCHANGED idx
       ELSE idx' = idx + 1 /\ UNCHANGED <<send_result, pc>>
    /\ UNCHANGED <<file, run, creds, data, content_hash, cached_hash, message, parts,
                   outcome, calls, saved, file_at_start, prev, pureVars>>

\* requests.post returns a response and raise_for_status raises
PostHttpError ==
    /\ pc = "post"
    /\ attempts' = Append(attempts, Attempt("http_error"))
    /\ response_bound' = TRUE
    /\ send_result' = "False" /\ pc' = "commit"
    /\ UNCHANGED <<file, run, creds, data, content_hash, cached_hash, message, parts,
                   idx, outcome, calls, saved, file_at_start, prev, okLog, pureVars>>

\* requests.post raises (timeout, no connection): `response` keeps what an
\* earlier part assigned; if nothing did, reading it in the handler raises
\* UnboundLocalError, which nothing catches
PostException ==
    /\ pc = "post"
    /\ attempts' = Append(attempts, Attempt("exception"))
    /\ IF response_bound
       THEN send_result' = "False" /\ pc' = "commit" /\ UNCHANGED outcome
       ELSE outcome' = "raised" /\ pc' = "done" /\ UNCHANGED send_result
    /\ UNCHANGED <<file, run, creds, data, content_hash, cached_hash, message, parts,
                   idx, response_bound, calls, saved, file_at_start, prev, okLog,
                   pureVars>>

\* back in main: save_hash on success
Commit ==
    /\ pc = "commit"
    /\ IF DeliverySucceeded(send_result)
       THEN file' = save_hash(content_hash) /\ saved' = TRUE /\ outcome' = "sent"
       ELSE outcome' = "send_failed" /\ UNCHANGED <<file, saved>>
    /\ pc' = "done"
    /\ UNCHANGED <<run, creds, data, content_hash, cached_hash, message, parts, idx,
                   response_bound, send_result, attempts, calls, file_at_start, prev,
                   okLog, pureVars>>

Next ==
    \/ StartRun
    \/ FetchFail
    \/ FetchOk
    \/ CheckRevision
    \/ FormatAndCall
    \/ PostOk
    \/ PostHttpError
    \/ PostException
    \/ Commit

Spec == Init /\ [][Next]_vars

(***************************************************************************)
(* Properties of the pure functions                                        *)
(***************************************************************************)
\* what the feed says about hour h of the harness argument
SaidAbout(h) == IF ToString(h) \in DOMAIN arg THEN arg[ToString(h)] ELSE Absent

\* the slot a clock text names
SlotTimes == [s \in 0..48 |-> format_slot_time(s)]
SlotOfTime == [t \in {SlotTimes[s] : s \in 0..48} |->
                  CHOOSE s \in 0..48 : SlotTimes[s] = t]
SlotOf(t) == SlotOfTime[t]

\* text t ends with suf
EndsWith(t, suf) ==
    Len(t) >= Len(suf) /\ SubSeq(t, Len(t) - Len(suf) + 1, Len(t)) = suf

\* C5: the period list of build_schedule is non-empty, starts at 00:00 (slot
\* 0), ends at 24:00 (slot 48), each period starts where the previous one
\* ends, adjacent periods differ in is_on, each period is a non-empty run of
\* slots that all carry its is_on, its hours are (end - start) * 0.5, and
\* the hours sum to 24.0.
C5_IntervalInvariant ==
    fpc = "sched_built" =>
        LET p == ret.schedule
            from(k) == SlotOf(p[k].start)
            to(k) == SlotOf(p[k].end)
        IN /\ Len(p) >= 1
           /\ p[1].start = "00:00" /\ from(1) = 0
           /\ p[Len(p)].end = "24:00" /\ to(Len(p)) = 48
           /\ \A k \in 2..Len(p) :
                  /\ p[k].start = p[k - 1].end
                  /\ p[k].is_on /= p[k - 1].is_on
           /\ \A k \in 1..Len(p) :
                  /\ from(k) < to(k)
                  /\ 2 * p[k].hours = (to(k) - from(k)) * Tenths
                  /\ \A i \in from(k)..(to(k) - 1) : ret.slots[i + 1] = p[k].is_on
           /\ SumHours(p, TRUE) + SumHours(p, FALSE) = 24 * Tenths

\* C5 witness: a day of at least four periods, one of them a one-hour
\* outage that starts on a half hour (two hours merged across their
\* boundary).
C5_Witness ==
    /\ fpc = "sched_built"
    /\ Len(ret.schedule) >= 4
    /\ \E k \in 1..Len(ret.schedule) :
           ret.schedule[k].hours = 10 /\ ~ret.schedule[k].is_on
               /\ SlotOf(ret.schedule[k].start) % 2 = 1

\* C7: for every hour h in 1..24 the slots 2*(h-1) and 2*(h-1)+1 are
\* (on,on) for "yes", (off,off) for "no", (off,on) for "first", (on,off)
\* for "second", and (on,on) for the maybe codes, an unrecognised string
\* and an absent hour; there are exactly 48 slots, so keys outside
\* "1".."24" decide nothing.
C7_SlotEncoding ==
    fpc = "sched_built" =>
        /\ Len(ret.slots) = 48
        /\ \A h \in 1..24 :
               LET s == SaidAbout(h)
                   pair == <<ret.slots[2 * (h - 1) + 1], ret.slots[2 * (h - 1) + 2]>>
               IN /\ s = "yes" => pair = <<TRUE, TRUE>>
                  /\ s = "no" => pair = <<FALSE, FALSE>>
                  /\ s = "first" => pair = <<FALSE, TRUE>>
                  /\ s = "second" => pair = <<TRUE, FALSE>>
                  /\ s \in {"maybe", "mfirst", "msecond", "unknown", Absent}
                         => pair = <<TRUE, TRUE>>

\* C7 witness: hour 24 is "first" and the feed also carries the
\* out-of-range key "25" with "no".
C7_Witness ==
    /\ fpc = "sched_built"
    /\ SaidAbout(24) = "first" /\ SaidAbout(25) = "no"
    /\ ret.slots[47] = FALSE /\ ret.slots[48] = TRUE

\* the scenario of C8: hour "1" off, every other hour on
C8_Scenario ==
    /\ SaidAbout(1) = "no" /\ SaidAbout(2) = "yes"
    /\ \A h \in 3..24 : SaidAbout(h) \in {"yes", Absent}

\* C8 as stated: the scenario yields [00:00-02:00 off 2.0 h, 02:00-24:00 on
\* 22.0 h] and the summary "2 hodyny" off, "22 hodyny" on.
C8_AsStated ==
    (fpc = "sched_formatted" /\ C8_Scenario) =>
        /\ ret.schedule =
             <<[start |-> "00:00", end |-> "02:00", is_on |-> FALSE, hours |-> 20],
               [start |-> "02:00", end |-> "24:00", is_on |-> TRUE, hours |-> 220]>>
        /\ EndsWith(ret.text, "Svitlo e 22 hodyny\nSvitla nema 2 hodyny")

\* C8 amended: the scenario yields [00:00-01:00 off 1.0 h, 01:00-24:00 on
\* 23.0 h], the two period lines, and the summary "23 hodyny" on,
\* "1 hodyna" off.
C8_Scenario_Amended ==
    (fpc = "sched_formatted" /\ C8_Scenario) =>
        /\ ret.schedule =
             <<[start |-> "00:00", end |-> "01:00", is_on |-> FALSE, hours |-> 10],
               [start |-> "01:00", end |-> "24:00", is_on |-> TRUE, hours |-> 230]>>
        /\ EndsWith(ret.text,
               "\n-00:00 - 01:00 (1 hodyna)\n+01:00 - 24:00 (23 hodyny)\n\n"
                   \o "Svitlo e 23 hodyny\nSvitla nema 1 hodyna")

\* C8 witness: the scenario has been rendered.
C8_Witness ==
    /\ fpc = "sched_formatted" /\ C8_Scenario
    /\ Len(ret.schedule) = 2 /\ ret.is_today

\* C9: a fractional value takes the "2-4" form; an integer n takes the
\* singular when n mod 10 = 1 and n mod 100 /= 11, the "2-4" form when
\* n mod 10 is 2..4 and n mod 100 is not 12..14, and the general plural
\* otherwise; integers are printed without ".0".  For 0..24 this is:
\* singular 1 and 21; "2-4" form 2-4 and 22-24; general plural the rest.
C9_Pluralization ==
    fpc = "hours_done" =>
        LET whole == arg % 10 = 0
            n == arg \div 10
            number == IF whole THEN ToString(n) ELSE ToString(n) \o ".5"
            form == IF ~whole THEN "hodyny"
                    ELSE IF n % 10 = 1 /\ n % 100 /= 11 THEN "hodyna"
                    ELSE IF n % 10 \in {2, 3, 4} /\ n % 100 \notin {12, 13, 14}
                         THEN "hodyny"
                    ELSE "hodyn"
        IN /\ ret = number \o " " \o form
           /\ (whole /\ n \in {1, 21}) => ret = ToString(n) \o " hodyna"
           /\ (whole /\ n \in {2, 3, 4, 22, 23, 24}) => ret = ToString(n) \o " hodyny"
           /\ (whole /\ n \in {0} \cup 5..20) => ret = ToString(n) \o " hodyn"
           /\ arg = 25 => ret = "2.5 hodyny"
           /\ arg = 240 => ret = "24 hodyny"

\* C9 witness: the fractional override (2.5) and the teen exception (11).
C9_Witness ==
    /\ fpc = "hours_done"
    /\ \/ arg = 25 /\ ret = "2.5 hodyny"
       \/ arg = 110 /\ ret = "11 hodyn"

(***************************************************************************)
(* Properties of the runs                                                  *)
(***************************************************************************)
\* the run has ended after retrieving a feed whose fingerprint differs from
\* the marker it read
ChangedRunEnded ==
    pc = "done" /\ outcome /= "fetch_failed" /\ content_hash /= cached_hash

\* the marker after the run: the new fingerprint if it was written, else
\* what the run found
MarkerFollows(written) ==
    file = IF written THEN content_hash ELSE file_at_start

\* C1 as stated (for the runs that end without an exception): a changed
\* fingerprint means exactly one call of send_telegram_message, and the
\* marker is overwritten with the fingerprint iff the call returned True,
\* whatever the feed holds.
C1_AsStated ==
    (ChangedRunEnded /\ outcome /= "raised") =>
        /\ calls = 1
        /\ saved <=> send_result = "True"
        /\ MarkerFollows(saved)

\* C1 amended: when the fingerprint changed and format_full_message
\* returned a non-empty report, send_telegram_message is called exactly
\* once and the marker is overwritten with the fingerprint iff the call
\* returned True; when the report is None or empty, nothing is sent and the
\* marker stays.
C1_RevisionGate ==
    ChangedRunEnded =>
        /\ message \notin {None, ""} =>
               /\ calls = 1
               /\ saved <=> send_result = "True"
               /\ MarkerFollows(saved)
        /\ (message \in {None, ""} /\ outcome /= "raised") =>
               /\ outcome = "format_failed"
               /\ calls = 0 /\ attempts = <<>> /\ ~saved
               /\ MarkerFollows(FALSE)

\* C1 witness: a first run (no marker file) delivered and wrote the marker.
C1_Witness ==
    /\ ChangedRunEnded /\ file_at_start = NoFile
    /\ calls = 1 /\ send_result = "True" /\ saved /\ file = content_hash

\* C2 as stated: the second of two consecutive runs that see the same
\* fingerprint, the first having delivered, generates no report, attempts
\* no delivery and leaves the marker.
C2_AsStated ==
    (pc = "done" /\ outcome /= "fetch_failed"
         /\ prev.outcome = "sent" /\ prev.hash = content_hash) =>
        /\ outcome = "no_updates"
        /\ message = None /\ calls = 0 /\ attempts = <<>>
        /\ MarkerFollows(FALSE)

\* the number of payloads of the report of each fingerprint
PayloadsOf ==
    [h \in {FingerprintOf(d) : d \in Feeds \ {FeedBadKey}} |->
        LET text == format_full_message(CHOOSE d \in Feeds : FingerprintOf(d) = h)
        IN IF NotMessage(text) THEN 0 ELSE Len(Parts(text))]

\* C3 as stated (for fingerprints without surrounding blanks): no payload
\* of a revision's report is sent successfully in more than one run.
C3_AsStated ==
    \A a, b \in okLog :
        (a[2] = b[2] /\ a[3] = b[3] /\ strip(a[2]) = a[2]) => a[1] = b[1]

\* C3 amended: delivery is at least once.  The marker holds a fingerprint
\* only after one run sent every payload of its report successfully; within
\* a run no payload is posted twice; and a run posts only when the
\* fingerprint differs from the marker it read.
C3_AtLeastOnce ==
    /\ file /= NoFile =>
           /\ PayloadsOf[file] >= 1
           /\ \E r \in 1..run : \A i \in 1..PayloadsOf[file] : <<r, file, i>> \in okLog
    /\ \A i, j \in 1..Len(attempts) :
           attempts[i].part = attempts[j].part => i = j
    /\ (pc \in {"post", "commit"} \/ attempts /= <<>>) => content_hash /= cached_hash

\* C3 witness: the first payload was sent in run 1 and again in run 2, and
\* the marker now holds the fingerprint.
C3_Witness ==
    \E h \in DOMAIN PayloadsOf :
        /\ <<1, h, 1>> \in okLog /\ <<2, h, 1>> \in okLog
        /\ strip(h) = h /\ file = h

\* C4 as stated (the transport part): a run that handed a payload to the
\* transport ends by returning, never by an exception leaving main().
C4_AsStated ==
    (pc = "done" /\ attempts /= <<>>) => outcome /= "raised"

C10_AsStated ==
    /\ \A i \in 1..Len(attempts) : attempts[i].part = i
    /\ \A i \in 1..(Len(attempts) - 1) : attempts[i].result = "ok"
    /\ (pc = "done" /\ \E i \in 1..Len(attempts) : attempts[i].result /= "ok") =>
           /\ send_result = "False"
           /\ ~saved /\ MarkerFollows(FALSE)

\* C10, the part that holds: order, abort on the first failure, and no
\* marker write after a failure (the call returned False or raised).
C10_OrderAndAbort ==
    /\ \A i \in 1..Len(attempts) : attempts[i].part = i
    /\ \A i \in 1..(Len(attempts) - 1) : attempts[i].result = "ok"
    /\ (pc = "done" /\ \E i \in 1..Len(attempts) : attempts[i].result /= "ok") =>
           /\ send_result /= "True"
           /\ ~saved /\ MarkerFollows(FALSE)

=============================================================================
